---- MODULE Spec2Model ----
(***************************************************************************)
(* Model of the ball-and-hole simulation: Playground (the grid and the     *)
(* orb registry), Agent (belief, target selection, movement) and the       *)
(* Controller's round driver.                                              *)
(*                                                                         *)
(* A cell state is a Python string.  It is modelled as a sequence of       *)
(* symbols: each terrain constant of consts.py is one symbol, "," and "-"  *)
(* are symbols, and every character of an agent id is a symbol, so that    *)
(* str.replace and the substring test `in` are computed as Python does.    *)
(* The grid is a list of rows, indexed grid[row][column] from 0.           *)
(* A raised exception ends the run: err records it and nothing moves on.   *)
(***************************************************************************)
EXTENDS Integers, Sequences, FiniteSets, TLC

\* ------------------------------------------------------------ bounds
MaxAgents == 2
MaxBattery == 2
MaxHoles == 2
MaxOrbs == 2
MaxRounds == 5
\* grid dimensions (xAxis, yAxis) the runs start from
Dims == {<<1, 1>>, <<2, 2>>, <<3, 2>>, <<2, 3>>}
\* agent ids handed to create_agent
AgentIds == {<<"1">>, <<"1", "2">>}
\* field-of-view sizes get_surrounding_cells is probed with
ProbeFov == 1 .. 3

\* ------------------------------------------------------------ consts.py
EMPTY == <<"empty">>
OBSTACLE == <<"obstacle">>
HOLE == <<"hole">>
ORB == <<"orb">>
FILLED_HOLE == <<"filled_hole">>
AGENT == <<"agent">>
OUT == <<"out">>
UP == "up"
RIGHT == "right"
DOWN == "down"
LEFT == "left"
directions == <<UP, RIGHT, DOWN, LEFT>>
None == <<>>

\* ------------------------------------------------------------ Python str
\* sub in s
Contains(s, sub) ==
    \E k \in 1 .. (Len(s) - Len(sub) + 1) : SubSeq(s, k, k + Len(sub) - 1) = sub

\* s.replace(old, new): leftmost non-overlapping occurrences, old non-empty
RECURSIVE Replace(_, _, _)
Replace(s, old, new) ==
    IF Len(s) < Len(old) THEN s
    ELSE IF SubSeq(s, 1, Len(old)) = old
         THEN new \o Replace(SubSeq(s, Len(old) + 1, Len(s)), old, new)
         ELSE <<Head(s)>> \o Replace(Tail(s), old, new)

\* list.remove(v): the first occurrence (the caller checks membership)
RECURSIVE ListRemove(_, _)
ListRemove(l, v) ==
    IF l = <<>> THEN <<>>
    ELSE IF Head(l) = v THEN Tail(l)
    ELSE <<Head(l)>> \o ListRemove(Tail(l), v)

InList(l, v) == \E k \in 1 .. Len(l) : l[k] = v

Abs(n) == IF n < 0 THEN -n ELSE n

\* ------------------------------------------------------------ state
VARIABLES
    xAxis, yAxis,            \* Playground.dimension
    num_holes, num_orbs,     \* Playground.num_holes / num_orbs
    grid,                    \* Playground.grid[row][column]
    agent_start_positions,   \* Playground.agent_start_positions
    orb_positions,           \* Playground.orb_positions (the orb registry)
    agents,                  \* Controller.agents, in registration order
    phase,                   \* "setup" | "running"
    turn,                    \* position of next_round's loop over the roster
    iteration,               \* len(Controller.draws)
    err,                     \* "none", or the exception / hang that ended the run
    last,                    \* what the last operation did (history)
    round_log                \* per agent: battery at round start, its turn (history)

vars == <<xAxis, yAxis, num_holes, num_orbs, grid, agent_start_positions,
          orb_positions, agents, phase, turn, iteration, err, last, round_log>>

Positions == {<<x, y>> : x \in 0 .. xAxis - 1, y \in 0 .. yAxis - 1}
InGrid(p) == p # None /\ p[1] >= 0 /\ p[1] < xAxis /\ p[2] >= 0 /\ p[2] < yAxis

\* ------------------------------------------------------------ Playground
\* Python list indexing: a negative index counts from the end
PyIndexOK(k, n) == k >= -n /\ k < n
PyIndex(k, n) == IF k < 0 THEN k + n ELSE k

\* grid[r][c] is defined (no IndexError)
GridIndexOK(r, c) == PyIndexOK(r, yAxis) /\ PyIndexOK(c, xAxis)
GridGet(g, r, c) == g[PyIndex(r, yAxis)][PyIndex(c, xAxis)]
GridSet(g, r, c, v) == [g EXCEPT ![PyIndex(r, yAxis)][PyIndex(c, xAxis)] = v]

get_label(a) == AGENT \o <<"-">> \o a.agent_id

is_valid_position(position) ==
    IF position = None THEN FALSE
    ELSE IF position[1] < 0 \/ position[1] >= xAxis THEN FALSE
    ELSE IF position[2] < 0 \/ position[2] >= xAxis THEN FALSE
    ELSE TRUE

\* get_cell_state reads grid[y][x] without a bounds check
CellReadable(position) == GridIndexOK(position[2], position[1])
get_cell_state(g, position) == GridGet(g, position[2], position[1])

\* ------------------------------------------------------------ world values
\* The objects an operation works on, threaded through the calls it makes:
\* grid, registry, roster, the raised exception, the callee's return value,
\* the acting agent's visibility window, and what the turn did (history).
World == [grid |-> grid, orbs |-> orb_positions, ags |-> agents, err |-> "none",
          ret |-> FALSE, vis |-> <<>>, switches |-> 0, relocated |-> 0,
          consumed |-> 0, kind |-> "none", entered |-> FALSE]

Raise(w, e) == [w EXCEPT !.err = e]
Return(w, v) == [w EXCEPT !.ret = v]

\* sequencing: the value e of one statement, named v in the statements F after it
Bind(e, F(_)) == CHOOSE r \in {F(v) : v \in {e}} : TRUE

\* mutant: the columns of the window start one cell too far right
get_surrounding_cells_shifted(g, position, field_of_view) ==
    LET h == field_of_view \div 2
        x == position[1]
        y == position[2]
    IN [r \in 1 .. 2 * h + 1 |->
          [c \in 1 .. 2 * h + 1 |->
             LET i == y - h + r - 1
                 j == x - h + c
             IN IF i < 0 \/ j < 0 \/ i >= yAxis \/ j >= xAxis
                THEN OUT
                ELSE g[i][j]]]

get_surrounding_cells(g, position, field_of_view) ==
    LET h == field_of_view \div 2
        x == position[1]
        y == position[2]
    IN [r \in 1 .. 2 * h + 1 |->
          [c \in 1 .. 2 * h + 1 |->
             LET i == y - h + r - 1
                 j == x - h + c - 1
             IN IF i < 0 \/ j < 0 \/ i >= yAxis \/ j >= xAxis
                THEN OUT
                ELSE g[i][j]]]

\* the string agent_exit_cell leaves in the cell
exit_cell_state(current_cell_state, label) ==
    Bind(Replace(Replace(current_cell_state, label, <<>>), <<",", ",">>, <<",">>),
         LAMBDA s1 :
            LET s2 == IF s1 = <<>> THEN EMPTY ELSE s1
            IN IF s2[Len(s2)] = "," THEN SubSeq(s2, 1, Len(s2) - 1) ELSE s2)

agent_exit_cell(w, i) ==
    LET a == w.ags[i]
        x == a.position[1]
        y == a.position[2]
    IN IF ~CellReadable(a.position) THEN Raise(w, "IndexError")
       ELSE [w EXCEPT !.grid = GridSet(@, y, x,
                 exit_cell_state(get_cell_state(w.grid, a.position), get_label(a)))]

\* the string agent_enter_cell writes to the destination
enter_cell_state(current_cell_state, label) == current_cell_state \o <<",">> \o label

agent_enter_cell(w, position, i) ==
    IF ~is_valid_position(position) THEN Return(w, FALSE)
    ELSE IF ~CellReadable(position) THEN Raise(w, "IndexError")
    ELSE Bind(agent_exit_cell(w, i), LAMBDA w1 :
            IF w1.err # "none" THEN w1
            ELSE Return([w1 EXCEPT !.grid = GridSet(@, position[2], position[1],
                              enter_cell_state(get_cell_state(w.grid, position),
                                               get_label(w.ags[i])))],
                        TRUE))

\* mutant: the orb is taken from the cell and stays in the registry
pick_orb_keeps_registry(w, position) ==
    IF ~is_valid_position(position) THEN Return(w, FALSE)
    ELSE IF ~CellReadable(position) THEN Raise(w, "IndexError")
    ELSE LET current_cell_state == get_cell_state(w.grid, position)
         IN IF ~Contains(current_cell_state, ORB) THEN Return(w, FALSE)
            ELSE Return([w EXCEPT !.grid = GridSet(@, position[2], position[1],
                                     Replace(current_cell_state, ORB, EMPTY))], TRUE)

pick_orb(w, position) ==
    IF ~is_valid_position(position) THEN Return(w, FALSE)
    ELSE IF ~CellReadable(position) THEN Raise(w, "IndexError")
    ELSE LET current_cell_state == get_cell_state(w.grid, position)
         IN IF ~Contains(current_cell_state, ORB) THEN Return(w, FALSE)
            ELSE LET w1 == [w EXCEPT !.grid = GridSet(@, position[2], position[1],
                                       Replace(current_cell_state, ORB, EMPTY))]
                 IN IF position \notin w.orbs THEN Raise(w1, "KeyError")
                    ELSE Return([w1 EXCEPT !.orbs = @ \ {position}], TRUE)

\* the cell an orb at orb is pushed to by the direction drawn
orb_new_position(orb, direction) ==
    CASE direction = UP -> <<orb[1], orb[2] - 1>>
      [] direction = RIGHT -> <<orb[1] + 1, orb[2]>>
      [] direction = DOWN -> <<orb[1], orb[2] + 1>>
      [] direction = LEFT -> <<orb[1] - 1, orb[2]>>
      [] OTHER -> None

\* mutant: the destination gets the new token next to the one it has
orb_moved_grid_stacks(g, orb, new_position, from, to) ==
    Bind(GridSet(g, orb[2], orb[1], Replace(GridGet(g, orb[2], orb[1]), ORB, EMPTY)),
         LAMBDA g1 :
            GridSet(g1, new_position[2], new_position[1],
                    to \o <<",">> \o GridGet(g1, new_position[2], new_position[1])))

\* grid after moving the orb token out of orb and turning token from into
\* token to in the destination
orb_moved_grid(g, orb, new_position, from, to) ==
    Bind(GridSet(g, orb[2], orb[1], Replace(GridGet(g, orb[2], orb[1]), ORB, EMPTY)),
         LAMBDA g1 :
            GridSet(g1, new_position[2], new_position[1],
                    Replace(GridGet(g1, new_position[2], new_position[1]), from, to)))

\* one iteration of switch_orb_positions' loop: choice is "stay" (prob > 0.1)
\* or the direction drawn
switch_one(w, orb, choice) ==
    LET new_position == orb_new_position(orb, choice)
    IN IF choice = "stay" THEN w
       ELSE IF ~is_valid_position(new_position) THEN w
       ELSE IF ~CellReadable(new_position) THEN Raise(w, "IndexError")
       ELSE LET new_cell_label == get_cell_state(w.grid, new_position)
            IN IF Contains(new_cell_label, ORB) \/ Contains(new_cell_label, FILLED_HOLE)
               THEN w
               ELSE IF Contains(new_cell_label, EMPTY)
               THEN IF orb \notin w.orbs
                    THEN Raise([w EXCEPT !.grid =
                                  orb_moved_grid(@, orb, new_position, EMPTY, ORB)],
                               "KeyError")
                    ELSE [w EXCEPT !.grid = orb_moved_grid(@, orb, new_position, EMPTY, ORB),
                                   !.orbs = (@ \ {orb}) \cup {new_position},
                                   !.relocated = @ + 1]
               ELSE IF Contains(new_cell_label, HOLE)
               THEN IF orb \notin w.orbs
                    THEN Raise([w EXCEPT !.grid =
                                  orb_moved_grid(@, orb, new_position, HOLE, FILLED_HOLE)],
                               "KeyError")
                    ELSE [w EXCEPT !.grid =
                                  orb_moved_grid(@, orb, new_position, HOLE, FILLED_HOLE),
                                   !.orbs = @ \ {orb},
                                   !.consumed = @ + 1]
               ELSE w

\* the loop over the snapshot orb_position_temp; plan lists the snapshot in
\* the order the set is iterated, each orb with its random draw
RECURSIVE switch_loop_live(_, _)
switch_loop_live(w, plan) ==
    IF plan = <<>> \/ w.err # "none" THEN w
    ELSE Bind(switch_one(w, plan[1][1], plan[1][2]), LAMBDA w1 :
            IF w1.err = "none" /\ w1.relocated > w.relocated
            THEN Bind(switch_one(w1, orb_new_position(plan[1][1], plan[1][2]),
                                 plan[1][2]),
                      LAMBDA w2 : switch_loop_live(w2, Tail(plan)))
            ELSE switch_loop_live(w1, Tail(plan)))

RECURSIVE switch_loop(_, _)
switch_loop(w, plan) ==
    IF plan = <<>> \/ w.err # "none" THEN w
    ELSE Bind(switch_one(w, plan[1][1], plan[1][2]),
              LAMBDA w1 : switch_loop(w1, Tail(plan)))

switch_orb_positions(w, plan) ==
    Bind([w EXCEPT !.switches = @ + 1], LAMBDA w1 : switch_loop(w1, plan))

place_orb_erases_hole(w, position, i, plan) ==
    IF ~is_valid_position(position) THEN Return(w, FALSE)
    ELSE IF ~w.ags[i].has_ball THEN Return(w, FALSE)
    ELSE IF ~CellReadable(position) THEN Raise(w, "IndexError")
    ELSE LET current_cell_state == get_cell_state(w.grid, position)
         IN IF ~Contains(current_cell_state, HOLE) THEN Return(w, FALSE)
            ELSE Bind([w EXCEPT !.grid = GridSet(@, position[2], position[1],
                                   Replace(current_cell_state, HOLE, EMPTY))],
                      LAMBDA w1 :
                         Bind(switch_orb_positions(w1, plan), LAMBDA w2 :
                            IF w2.err # "none" THEN w2 ELSE Return(w2, TRUE)))

place_orb(w, position, i, plan) ==
    IF ~is_valid_position(position) THEN Return(w, FALSE)
    ELSE IF ~w.ags[i].has_ball THEN Return(w, FALSE)
    ELSE IF ~CellReadable(position) THEN Raise(w, "IndexError")
    ELSE LET current_cell_state == get_cell_state(w.grid, position)
         IN IF ~Contains(current_cell_state, HOLE) THEN Return(w, FALSE)
            ELSE Bind([w EXCEPT !.grid = GridSet(@, position[2], position[1],
                                   Replace(current_cell_state, HOLE, FILLED_HOLE))],
                      LAMBDA w1 :
                         Bind(switch_orb_positions(w1, plan), LAMBDA w2 :
                            IF w2.err # "none" THEN w2 ELSE Return(w2, TRUE)))

is_a_hole_cell(g, position) == Contains(get_cell_state(g, position), HOLE)
is_a_orb_cell(g, position) == Contains(get_cell_state(g, position), ORB)

\* ------------------------------------------------------------ Agent
\* Agent.__init__
NewAgent(agent_id, position, field_of_view, battery) ==
    [agent_id |-> agent_id, position |-> position, field_of_view |-> field_of_view,
     visited_cell |-> {position}, direction |-> UP, battery |-> battery,
     has_ball |-> FALSE, hole_positions |-> <<>>, orb_positions |-> <<>>,
     target_position |-> None, is_a_random_target |-> FALSE,
     filled_hole_positions |-> {}]

DirIndex(d) == CHOOSE k \in 1 .. Len(directions) : directions[k] = d

turn_clockwise(d) == directions[(DirIndex(d) % Len(directions)) + 1]

\* while self.direction != want: self.turn_clockwise()
RECURSIVE turn_until(_, _)
turn_until(d, want) == IF d = want THEN d ELSE turn_until(turn_clockwise(d), want)

\* utils.get_new_position
get_new_position(direction, position) ==
    CASE direction = UP -> <<position[1], position[2] - 1>>
      [] direction = RIGHT -> <<position[1] + 1, position[2]>>
      [] direction = DOWN -> <<position[1], position[2] + 1>>
      [] direction = LEFT -> <<position[1] - 1, position[2]>>

manhattan_distance(pos1, pos2) == Abs(pos1[1] - pos2[1]) + Abs(pos1[2] - pos2[2])

\* mutant: the step forward spends no battery
take_step_forward_free(w, i) ==
    LET new_position == get_new_position(w.ags[i].direction, w.ags[i].position)
    IN Bind(agent_enter_cell(w, new_position, i), LAMBDA w2 :
          IF w2.err # "none" THEN w2
          ELSE IF w2.ret
          THEN Return([w2 EXCEPT !.ags[i].position = new_position,
                                 !.ags[i].visited_cell = @ \cup {new_position},
                                 !.entered = TRUE], TRUE)
          ELSE Return(w2, TRUE))

take_step_forward_refunds(w, i) ==
    Bind([w EXCEPT !.ags[i].battery = @ - 1], LAMBDA w1 :
       LET new_position == get_new_position(w1.ags[i].direction, w1.ags[i].position)
       IN Bind(agent_enter_cell(w1, new_position, i), LAMBDA w2 :
             IF w2.err # "none" THEN w2
             ELSE IF w2.ret
             THEN Return([w2 EXCEPT !.ags[i].position = new_position,
                                    !.ags[i].visited_cell = @ \cup {new_position},
                                    !.entered = TRUE], TRUE)
             ELSE Return([w2 EXCEPT !.ags[i].battery = @ + 1], TRUE)))

take_step_forward(w, i) ==
    Bind([w EXCEPT !.ags[i].battery = @ - 1], LAMBDA w1 :
       LET new_position == get_new_position(w1.ags[i].direction, w1.ags[i].position)
       IN Bind(agent_enter_cell(w1, new_position, i), LAMBDA w2 :
             IF w2.err # "none" THEN w2
             ELSE IF w2.ret
             THEN Return([w2 EXCEPT !.ags[i].position = new_position,
                                    !.ags[i].visited_cell = @ \cup {new_position},
                                    !.entered = TRUE], TRUE)
             ELSE Return(w2, TRUE)))

\* mutant: picking an orb up also runs the redistribution pass
take_ball_redistributes(w, i) ==
    IF w.ags[i].has_ball THEN Return(w, FALSE)
    ELSE Bind(pick_orb(w, w.ags[i].position), LAMBDA w1 :
            IF w1.err # "none" THEN w1
            ELSE IF w1.ret
            THEN IF ~InList(w1.ags[i].orb_positions, w1.ags[i].position)
                 THEN Raise([w1 EXCEPT !.ags[i].has_ball = TRUE], "ValueError")
                 ELSE Bind(switch_orb_positions(w1, <<>>), LAMBDA w2 :
                         Return([w2 EXCEPT !.ags[i].has_ball = TRUE,
                                           !.ags[i].orb_positions =
                                               ListRemove(@, w1.ags[i].position)], TRUE))
            ELSE Return(w1, FALSE))

\* mutant: the orb is picked from the cell and the agent's hand stays empty
take_ball_hand_stays_empty(w, i) ==
    IF w.ags[i].has_ball THEN Return(w, FALSE)
    ELSE Bind(pick_orb(w, w.ags[i].position), LAMBDA w1 :
            IF w1.err # "none" THEN w1
            ELSE IF w1.ret
            THEN IF ~InList(w1.ags[i].orb_positions, w1.ags[i].position)
                 THEN Raise(w1, "ValueError")
                 ELSE Return([w1 EXCEPT !.ags[i].orb_positions =
                                            ListRemove(@, w1.ags[i].position)], TRUE)
            ELSE Return(w1, FALSE))

take_ball(w, i) ==
    IF w.ags[i].has_ball THEN Return(w, FALSE)
    ELSE Bind(pick_orb(w, w.ags[i].position), LAMBDA w1 :
            IF w1.err # "none" THEN w1
            ELSE IF w1.ret
            THEN IF ~InList(w1.ags[i].orb_positions, w1.ags[i].position)
                 THEN Raise([w1 EXCEPT !.ags[i].has_ball = TRUE], "ValueError")
                 ELSE Return([w1 EXCEPT !.ags[i].has_ball = TRUE,
                                        !.ags[i].orb_positions =
                                            ListRemove(@, w1.ags[i].position)], TRUE)
            ELSE Return(w1, FALSE))

put_ball_in_hole(w, i, plan) ==
    IF ~w.ags[i].has_ball THEN Return(w, FALSE)
    ELSE Bind(place_orb(w, w.ags[i].position, i, plan), LAMBDA w1 :
            IF w1.err # "none" THEN w1
            ELSE IF w1.ret
            THEN IF ~InList(w1.ags[i].hole_positions, w1.ags[i].position)
                 THEN Raise([w1 EXCEPT !.ags[i].has_ball = FALSE], "ValueError")
                 ELSE Return([w1 EXCEPT !.ags[i].has_ball = FALSE,
                                        !.ags[i].hole_positions =
                                            ListRemove(@, w1.ags[i].position)], TRUE)
            ELSE Return(w1, FALSE))

\* Agent.see
see(w, visibility) == [w EXCEPT !.vis = visibility]

\* the body of update_item_positions' inner loop for the window cell seen at env
update_item_counts_holes(a, cell, env) ==
    LET orbs1 == IF Contains(cell, ORB) /\ ~InList(a.orb_positions, env)
                 THEN Append(a.orb_positions, env) ELSE a.orb_positions
        holes1 == IF Contains(cell, HOLE) /\ ~InList(a.hole_positions, env)
                  THEN Append(a.hole_positions, env) ELSE a.hole_positions
        filled1 == IF Contains(cell, FILLED_HOLE) \/ Contains(cell, HOLE)
                   THEN a.filled_hole_positions \cup {env} ELSE a.filled_hole_positions
    IN [a EXCEPT !.orb_positions = orbs1, !.hole_positions = holes1,
                 !.filled_hole_positions = filled1]

update_item(a, cell, env) ==
    LET orbs1 == IF Contains(cell, ORB) /\ ~InList(a.orb_positions, env)
                 THEN Append(a.orb_positions, env) ELSE a.orb_positions
        holes1 == IF Contains(cell, HOLE) /\ ~InList(a.hole_positions, env)
                  THEN Append(a.hole_positions, env) ELSE a.hole_positions
        filled1 == IF Contains(cell, FILLED_HOLE)
                   THEN a.filled_hole_positions \cup {env} ELSE a.filled_hole_positions
    IN [a EXCEPT !.orb_positions = orbs1, !.hole_positions = holes1,
                 !.filled_hole_positions = filled1]

\* update_item_positions' loops over the window cells k, k+1, ... in row-major
\* order (k counts from 0)
RECURSIVE update_items_from(_, _, _)
update_items_from(a, visibility, k) ==
    LET n == Len(visibility)
        i == k \div n
        j == k % n
    IN IF k >= n * n THEN a
       ELSE Bind(update_item(a, visibility[i + 1][j + 1],
                             <<a.position[1] - a.field_of_view \div 2 + j,
                               a.position[2] - a.field_of_view \div 2 + i>>),
                 LAMBDA a1 : update_items_from(a1, visibility, k + 1))

update_item_positions(w, i) ==
    [w EXCEPT !.ags[i] = update_items_from(w.ags[i], w.vis, 0)]

\* mutant: the most recently discovered candidate is taken
find_nearest_target_latest(position, target_list) == target_list[Len(target_list)]

\* min(target_list, key=manhattan_distance): the first element at least distance
find_nearest_target(position, target_list) ==
    LET k == CHOOSE k \in 1 .. Len(target_list) :
                 /\ \A m \in 1 .. Len(target_list) :
                        manhattan_distance(position, target_list[k])
                            <= manhattan_distance(position, target_list[m])
                 /\ \A m \in 1 .. k - 1 :
                        manhattan_distance(position, target_list[m])
                            > manhattan_distance(position, target_list[k])
    IN target_list[k]

\* the positions find_random_position can return
UnvisitedPositions(a) == Positions \ a.visited_cell

\* mutant: the target is recomputed whatever the agent is heading for
update_target_always(w, i, rnd) ==
    LET a == w.ags[i]
        target_list == IF a.has_ball THEN a.hole_positions ELSE a.orb_positions
    IN IF Len(target_list) > 0
       THEN Bind(find_nearest_target(a.position, target_list), LAMBDA nearest_target :
               IF a.has_ball
               THEN [w EXCEPT !.ags[i].hole_positions = ListRemove(@, nearest_target),
                              !.ags[i].target_position = nearest_target,
                              !.ags[i].is_a_random_target = FALSE]
               ELSE [w EXCEPT !.ags[i].orb_positions = ListRemove(@, nearest_target),
                              !.ags[i].target_position = nearest_target,
                              !.ags[i].is_a_random_target = FALSE])
       ELSE IF UnvisitedPositions(a) = {} THEN Raise(w, "hang")
       ELSE [w EXCEPT !.ags[i].target_position = rnd,
                      !.ags[i].is_a_random_target = TRUE]

\* mutant: the fallback target is drawn without looking at visited_cell
update_target_any_cell(w, i, rnd) ==
    LET a == w.ags[i]
        target_list == IF a.has_ball THEN a.hole_positions ELSE a.orb_positions
    IN IF a.target_position # None /\ ~a.is_a_random_target THEN w
       ELSE IF Len(target_list) > 0
       THEN Bind(find_nearest_target(a.position, target_list), LAMBDA nearest_target :
               IF a.has_ball
               THEN [w EXCEPT !.ags[i].hole_positions = ListRemove(@, nearest_target),
                              !.ags[i].target_position = nearest_target,
                              !.ags[i].is_a_random_target = FALSE]
               ELSE [w EXCEPT !.ags[i].orb_positions = ListRemove(@, nearest_target),
                              !.ags[i].target_position = nearest_target,
                              !.ags[i].is_a_random_target = FALSE])
       ELSE IF ~a.is_a_random_target
       THEN [w EXCEPT !.ags[i].target_position =
                          CHOOSE p \in Positions : rnd = None \/ p # rnd,
                      !.ags[i].is_a_random_target = TRUE]
       ELSE w

\* rnd is the position find_random_position returns; its loop never ends when
\* every cell is in visited_cell
update_target(w, i, rnd) ==
    LET a == w.ags[i]
        target_list == IF a.has_ball THEN a.hole_positions ELSE a.orb_positions
    IN IF a.target_position # None /\ ~a.is_a_random_target THEN w
       ELSE IF Len(target_list) > 0
       THEN Bind(find_nearest_target(a.position, target_list), LAMBDA nearest_target :
               IF a.has_ball
               THEN [w EXCEPT !.ags[i].hole_positions = ListRemove(@, nearest_target),
                              !.ags[i].target_position = nearest_target,
                              !.ags[i].is_a_random_target = FALSE]
               ELSE [w EXCEPT !.ags[i].orb_positions = ListRemove(@, nearest_target),
                              !.ags[i].target_position = nearest_target,
                              !.ags[i].is_a_random_target = FALSE])
       ELSE IF ~a.is_a_random_target
       THEN IF UnvisitedPositions(a) = {} THEN Raise(w, "hang")
            ELSE [w EXCEPT !.ags[i].target_position = rnd,
                           !.ags[i].is_a_random_target = TRUE]
       ELSE w

interact_with_environment(w, i, plan) ==
    LET a == w.ags[i] IN
    IF ~CellReadable(a.position) THEN Raise(w, "IndexError")
    ELSE IF a.has_ball /\ is_a_hole_cell(w.grid, a.position)
    THEN Bind(put_ball_in_hole(w, i, plan), LAMBDA w1 :
            IF w1.err # "none" THEN [w1 EXCEPT !.kind = "put"]
            ELSE [w1 EXCEPT !.kind = IF w1.ret THEN "put" ELSE "putfail", !.ret = TRUE])
    ELSE IF ~a.has_ball /\ is_a_orb_cell(w.grid, a.position)
    THEN Bind(take_ball(w, i), LAMBDA w1 :
            IF w1.err # "none" THEN [w1 EXCEPT !.kind = "take"]
            ELSE [w1 EXCEPT !.kind = IF w1.ret THEN "take" ELSE "takefail", !.ret = TRUE])
    ELSE IF a.target_position = a.position
    THEN Return([w EXCEPT !.ags[i].target_position = None,
                          !.ags[i].is_a_random_target = FALSE], FALSE)
    ELSE Return(w, FALSE)

\* the orientation chain of Agent.action
face_target_vertical_first(a) ==
    LET target_x == a.target_position[1]
        target_y == a.target_position[2]
    IN IF a.position[2] < target_y THEN turn_until(a.direction, DOWN)
       ELSE IF a.position[2] > target_y THEN turn_until(a.direction, UP)
       ELSE IF a.position[1] < target_x THEN turn_until(a.direction, RIGHT)
       ELSE IF a.position[1] > target_x THEN turn_until(a.direction, LEFT)
       ELSE a.direction

face_target(a) ==
    LET target_x == a.target_position[1]
        target_y == a.target_position[2]
    IN IF a.position[1] < target_x THEN turn_until(a.direction, RIGHT)
       ELSE IF a.position[1] > target_x THEN turn_until(a.direction, LEFT)
       ELSE IF a.position[2] < target_y THEN turn_until(a.direction, DOWN)
       ELSE IF a.position[2] > target_y THEN turn_until(a.direction, UP)
       ELSE a.direction

\* mutant: a turn that interacted still pays for a step
action_pays_after_interaction(w, i, plan, rnd) ==
    Bind(update_item_positions(w, i), LAMBDA w1 :
      Bind(interact_with_environment(w1, i, plan), LAMBDA w2 :
        IF w2.err # "none" THEN w2
        ELSE IF w2.ret
        THEN LET c == w2.ags[i].field_of_view \div 2 + 1
             IN Bind([w2 EXCEPT !.vis[c][c] =
                                   get_cell_state(w2.grid, w2.ags[i].position),
                                !.ags[i].battery = @ - 1],
                     LAMBDA w3 : update_item_positions(w3, i))
        ELSE Bind(update_target(w2, i, rnd), LAMBDA w3 :
                IF w3.err # "none" THEN [w3 EXCEPT !.kind = "move"]
                ELSE Bind([w3 EXCEPT !.ags[i].direction = face_target(w3.ags[i]),
                                     !.kind = "move"],
                          LAMBDA w4 : take_step_forward(w4, i)))))

action_without_perception(w, i, plan, rnd) ==
      Bind(interact_with_environment(w, i, plan), LAMBDA w2 :
        IF w2.err # "none" THEN w2
        ELSE IF w2.ret
        THEN LET c == w2.ags[i].field_of_view \div 2 + 1
             IN Bind([w2 EXCEPT !.vis[c][c] =
                                   get_cell_state(w2.grid, w2.ags[i].position)],
                     LAMBDA w3 : update_item_positions(w3, i))
        ELSE Bind(update_target(w2, i, rnd), LAMBDA w3 :
                IF w3.err # "none" THEN [w3 EXCEPT !.kind = "move"]
                ELSE Bind([w3 EXCEPT !.ags[i].direction = face_target(w3.ags[i]),
                                     !.kind = "move"],
                          LAMBDA w4 : take_step_forward(w4, i))))

action(w, i, plan, rnd) ==
    Bind(update_item_positions(w, i), LAMBDA w1 :
      Bind(interact_with_environment(w1, i, plan), LAMBDA w2 :
        IF w2.err # "none" THEN w2
        ELSE IF w2.ret
        THEN LET c == w2.ags[i].field_of_view \div 2 + 1
             IN Bind([w2 EXCEPT !.vis[c][c] =
                                   get_cell_state(w2.grid, w2.ags[i].position)],
                     LAMBDA w3 : update_item_positions(w3, i))
        ELSE Bind(update_target(w2, i, rnd), LAMBDA w3 :
                IF w3.err # "none" THEN [w3 EXCEPT !.kind = "move"]
                ELSE Bind([w3 EXCEPT !.ags[i].direction = face_target(w3.ags[i]),
                                     !.kind = "move"],
                          LAMBDA w4 : take_step_forward(w4, i)))))

\* ------------------------------------------------------------ setup
FieldOfView == 3

\* mutant: a taken start position is not rejected
add_agent_no_collision_check(g, starts, a) ==
    LET starts1 == starts \cup {a.position}
        x == a.position[1]
        y == a.position[2]
    IN IF ~GridIndexOK(x, y)
       THEN [grid |-> g, starts |-> starts1, err |-> "IndexError", ret |-> FALSE]
       ELSE [grid |-> GridSet(g, x, y, get_label(a)), starts |-> starts1,
             err |-> "none", ret |-> TRUE]

\* Playground.add_agent, on the playground's own state
add_agent(g, starts, a) ==
    IF a.position \in starts THEN [grid |-> g, starts |-> starts, err |-> "none", ret |-> FALSE]
    ELSE LET starts1 == starts \cup {a.position}
             x == a.position[1]
             y == a.position[2]
         IN IF ~GridIndexOK(x, y)
            THEN [grid |-> g, starts |-> starts1, err |-> "IndexError", ret |-> FALSE]
            ELSE [grid |-> GridSet(g, x, y, get_label(a)), starts |-> starts1,
                  err |-> "none", ret |-> TRUE]

\* Playground.place_holes_and_orbs: holes and orbs are the heads of the
\* shuffled list of available positions
place_holes_and_orbs(g, holes, orbs) ==
    [r \in 0 .. yAxis - 1 |->
        [c \in 0 .. xAxis - 1 |->
            IF <<c, r>> \in orbs THEN ORB
            ELSE IF <<c, r>> \in holes THEN HOLE
            ELSE g[r][c]]]

AvailablePositions == Positions \ agent_start_positions

Min(a, b) == IF a < b THEN a ELSE b

\* history: an operation that is no agent turn
Last(op, who, ok) ==
    [op |-> op, who |-> who, kind |-> "none", ok |-> ok, switches |-> 0,
     relocated |-> 0, consumed |-> 0]

\* history: the batteries a round starts with, no turn taken yet
RoundStartLog(ags) == [k \in 1 .. Len(ags) |-> [battery |-> ags[k].battery, kind |-> "none"]]

Init ==
    /\ \E d \in Dims : xAxis = d[1] /\ yAxis = d[2]
    /\ num_holes = MaxHoles
    /\ num_orbs = MaxOrbs
    /\ grid = [r \in 0 .. yAxis - 1 |-> [c \in 0 .. xAxis - 1 |-> EMPTY]]
    /\ agent_start_positions = {}
    /\ orb_positions = {}
    /\ agents = <<>>
    /\ phase = "setup"
    /\ turn = 0
    /\ iteration = 0
    /\ err = "none"
    /\ round_log = <<>>
    /\ last = Last("init", 0, FALSE)

\* Controller.create_agent with an explicit position
CreateAgent ==
    /\ phase = "setup" /\ err = "none"
    /\ Len(agents) < MaxAgents
    /\ \E agent_id \in AgentIds, position \in Positions, battery \in {MaxBattery} :
          /\ \A k \in 1 .. Len(agents) : agents[k].agent_id # agent_id
          /\ LET agent == NewAgent(agent_id, position, FieldOfView, battery)
                 r == add_agent(grid, agent_start_positions, agent)
             IN /\ grid' = r.grid
                /\ agent_start_positions' = r.starts
                /\ err' = r.err
                /\ agents' = IF r.ret THEN Append(agents, agent) ELSE agents
                /\ last' = Last("create_agent", Len(agents) + 1, r.ret)
    /\ UNCHANGED <<xAxis, yAxis, num_holes, num_orbs, orb_positions, phase, turn,
                   iteration, round_log>>

\* Controller.start
Start ==
    /\ phase = "setup" /\ err = "none"
    /\ Len(agents) >= 1
    /\ \E holes \in SUBSET AvailablePositions :
          /\ Cardinality(holes) = Min(num_holes, Cardinality(AvailablePositions))
          /\ \E orbs \in SUBSET (AvailablePositions \ holes) :
                /\ Cardinality(orbs) =
                       Min(num_orbs, Cardinality(AvailablePositions) - Cardinality(holes))
                /\ grid' = place_holes_and_orbs(grid, holes, orbs)
                /\ orb_positions' = orb_positions \cup orbs
    /\ phase' = "running"
    /\ turn' = 1
    /\ iteration' = 1
    /\ round_log' = RoundStartLog(agents)
    /\ last' = Last("start", 0, TRUE)
    /\ UNCHANGED <<xAxis, yAxis, num_holes, num_orbs, agent_start_positions, agents, err>>

\* ------------------------------------------------------------ rounds
RECURSIVE Perms(_)
Perms(S) == IF S = {} THEN {<<>>}
            ELSE UNION {{<<x>> \o p : p \in Perms(S \ {x})} : x \in S}

Choices == {"stay", UP, RIGHT, DOWN, LEFT}

\* every order of iterating the registry snapshot, with every draw per orb
Plans(S) ==
    UNION {{[k \in 1 .. Len(p) |-> <<p[k], f[k]>>] : f \in [1 .. Len(p) -> Choices]}
           : p \in Perms(S)}

\* the agent's turn deposits, so switch_orb_positions draws
WillPlace(a) ==
    /\ a.has_ball
    /\ CellReadable(a.position)
    /\ is_a_hole_cell(grid, a.position)

\* mutant: the view is taken from a grid that misses the deposits made so far
agent_turn_stale(w, i, plan, rnd) ==
    Bind(see(w, get_surrounding_cells(
                   [r \in 0 .. yAxis - 1 |-> [c \in 0 .. xAxis - 1 |->
                       Replace(w.grid[r][c], FILLED_HOLE, HOLE)]],
                   w.ags[i].position, w.ags[i].field_of_view)),
         LAMBDA w1 : action(w1, i, plan, rnd))

\* the body of next_round's loop for the agent at roster index i
agent_turn(w, i, plan, rnd) ==
    Bind(see(w, get_surrounding_cells(w.grid, w.ags[i].position,
                                      w.ags[i].field_of_view)),
         LAMBDA w1 : action(w1, i, plan, rnd))

\* the redistribution draws that leave every orb of the registry S in place
RECURSIVE StayPlan(_)
StayPlan(S) ==
    IF S = {} THEN <<>>
    ELSE LET orb == CHOOSE o \in S : TRUE
         IN <<<<orb, "stay">>>> \o StayPlan(S \ {orb})

\* mutant: an exhausted agent takes its turn like any other
NextRoundSkip_acts ==
    /\ phase = "running" /\ err = "none"
    /\ iteration <= MaxRounds
    /\ turn <= Len(agents)
    /\ agents[turn].battery < 0
    /\ \E rnd \in (IF UnvisitedPositions(agents[turn]) = {} THEN {None}
                   ELSE UnvisitedPositions(agents[turn])) :
          \E w \in {agent_turn(World, turn, StayPlan(orb_positions), rnd)} :
             /\ grid' = w.grid
             /\ orb_positions' = w.orbs
             /\ agents' = w.ags
             /\ err' = w.err
             /\ last' = [op |-> "turn", who |-> turn, kind |-> w.kind,
                         ok |-> w.entered, switches |-> w.switches,
                         relocated |-> w.relocated, consumed |-> w.consumed]
             /\ round_log' = [round_log EXCEPT ![turn].kind = w.kind]
    /\ turn' = turn + 1
    /\ UNCHANGED <<xAxis, yAxis, num_holes, num_orbs, agent_start_positions, phase,
                   iteration>>

\* next_round, one roster entry: an exhausted agent is skipped
NextRoundSkip ==
    /\ phase = "running" /\ err = "none"
    /\ iteration <= MaxRounds
    /\ turn <= Len(agents)
    /\ agents[turn].battery < 0
    /\ turn' = turn + 1
    /\ last' = Last("skip", turn, FALSE)
    /\ round_log' = [round_log EXCEPT ![turn].kind = "skip"]
    /\ UNCHANGED <<xAxis, yAxis, num_holes, num_orbs, grid, agent_start_positions,
                   orb_positions, agents, phase, iteration, err>>

\* next_round, one roster entry: see(...) then action(...)
NextRoundAgent ==
    /\ phase = "running" /\ err = "none"
    /\ iteration <= MaxRounds
    /\ turn <= Len(agents)
    /\ agents[turn].battery >= 0
    /\ \E plan \in (IF WillPlace(agents[turn]) THEN Plans(orb_positions) ELSE {<<>>}),
          rnd \in (IF UnvisitedPositions(agents[turn]) = {} THEN {None}
                   ELSE UnvisitedPositions(agents[turn])) :
          \E w \in {agent_turn(World, turn, plan, rnd)} :
             /\ grid' = w.grid
             /\ orb_positions' = w.orbs
             /\ agents' = w.ags
             /\ err' = w.err
             /\ last' = [op |-> "turn", who |-> turn, kind |-> w.kind,
                         ok |-> w.entered, switches |-> w.switches,
                         relocated |-> w.relocated, consumed |-> w.consumed]
             /\ round_log' = [round_log EXCEPT ![turn].kind = w.kind]
    /\ turn' = turn + 1
    /\ UNCHANGED <<xAxis, yAxis, num_holes, num_orbs, agent_start_positions, phase,
                   iteration>>

\* next_round after the loop: the snapshot appended to draws
NextRoundEnd ==
    /\ phase = "running" /\ err = "none"
    /\ iteration <= MaxRounds
    /\ turn = Len(agents) + 1
    /\ turn' = 1
    /\ iteration' = iteration + 1
    /\ round_log' = RoundStartLog(agents)
    /\ last' = Last("end_round", 0, TRUE)
    /\ UNCHANGED <<xAxis, yAxis, num_holes, num_orbs, grid, agent_start_positions,
                   orb_positions, agents, phase, err>>

Next == CreateAgent \/ Start \/ NextRoundSkip \/ NextRoundAgent \/ NextRoundEnd

Spec == Init /\ [][Next]_vars

\* ------------------------------------------------------------ reading cells
\* s.split(','), as Draw.get_icon reads a cell
RECURSIVE Split(_)
Split(s) ==
    IF ~Contains(s, <<",">>) THEN <<s>>
    ELSE LET k == CHOOSE k \in 1 .. Len(s) :
                     s[k] = "," /\ \A m \in 1 .. k - 1 : s[m] # ","
         IN <<SubSeq(s, 1, k - 1)>> \o Split(SubSeq(s, k + 1, Len(s)))

Factors(cell) == {Split(cell)[k] : k \in 1 .. Len(Split(cell))}

\* the positions whose cell lists the label among its factors
CellsWithLabel(g, label) == {p \in Positions : label \in Factors(get_cell_state(g, p))}

\* the positions whose cell carries a terrain token
CellsWithToken(g, token) == {p \in Positions : Contains(get_cell_state(g, p), token)}

RoundBoundary == phase = "running" /\ err = "none" /\ turn = 1

\* ------------------------------------------------------------ claims

\* C1: after setup and after every round, the cells whose state lists an
\* agent's label are exactly the one cell at that agent's position.
C1_Occupancy ==
    RoundBoundary =>
        \A k \in 1 .. Len(agents) :
            CellsWithLabel(grid, get_label(agents[k])) = {agents[k].position}

\* C2: in every reachable state the orb registry is exactly the set of
\* positions whose cell carries the Orb token.
C2_RegistryConsistent == orb_positions = CellsWithToken(grid, ORB)

\* C2 witness: a deposit has run a redistribution pass that relocated an orb,
\* and orbs are still registered.
C2_Witness ==
    /\ last.kind = "put" /\ err = "none"
    /\ last.relocated > 0
    /\ orb_positions # {}

\* the conserved quantity of C3: registered orbs, filled holes, carried orbs
Carriers(ags) == {k \in 1 .. Len(ags) : ags[k].has_ball}
OrbCount(g, orbs, ags) ==
    Cardinality(orbs) + Cardinality(CellsWithToken(g, FILLED_HOLE))
        + Cardinality(Carriers(ags))

\* C3: |registry| + |FilledHole cells| + |carrying agents| never increases in
\* a step of a round, and is unchanged by every step that is no deposit.
C3_OrbConservation ==
    [][phase = "running" =>
          /\ OrbCount(grid', orb_positions', agents') <= OrbCount(grid, orb_positions, agents)
          /\ last'.kind # "put" =>
                OrbCount(grid', orb_positions', agents') = OrbCount(grid, orb_positions, agents)]_vars

\* C3 restricted to the steps that raise no exception
C3_OrbConservationNoRaise ==
    [][phase = "running" /\ err' = "none" =>
          /\ OrbCount(grid', orb_positions', agents') <= OrbCount(grid, orb_positions, agents)
          /\ last'.kind # "put" =>
                OrbCount(grid', orb_positions', agents') = OrbCount(grid, orb_positions, agents)]_vars

\* every roster entry of the round has been handled, the snapshot is next
RoundEnd == phase = "running" /\ err = "none" /\ turn = Len(agents) + 1

\* C4 as stated: a round costs every agent with battery >= 0 at round start
\* exactly one battery unit, and leaves the battery of the others unchanged.
C4_BatteryEveryRound ==
    RoundEnd =>
        \A k \in 1 .. Len(agents) :
            agents[k].battery = IF round_log[k].battery >= 0
                                THEN round_log[k].battery - 1
                                ELSE round_log[k].battery

\* C4 amended: the round costs one unit when the agent's turn was a movement
\* attempt and nothing when its turn was an interaction (pick or deposit);
\* an agent with battery < 0 at round start is skipped, battery unchanged.
C4_BatteryPerTurnKind ==
    RoundEnd =>
        \A k \in 1 .. Len(agents) :
            IF round_log[k].battery < 0
            THEN round_log[k].kind = "skip" /\ agents[k].battery = round_log[k].battery
            ELSE IF round_log[k].kind = "move"
            THEN agents[k].battery = round_log[k].battery - 1
            ELSE /\ round_log[k].kind \in {"put", "take", "putfail", "takefail"}
                 /\ agents[k].battery = round_log[k].battery

\* C4 witness: a round in which one agent moved and another interacted
C4_Witness ==
    /\ RoundEnd
    /\ \E k, m \in 1 .. Len(agents) :
          /\ round_log[k].kind \in {"put", "take"}
          /\ round_log[m].kind = "move"

\* positions in the grid and around it
ProbePositions ==
    LET n == IF xAxis > yAxis THEN xAxis ELSE yAxis
    IN {<<x, y>> : x \in -1 .. n, y \in -1 .. n}

\* C5: is_valid_position(position) is true exactly for 0 <= x < width and
\* 0 <= y < height, on every grid, square or not.
C5_ValidIffInGrid ==
    \A position \in ProbePositions : is_valid_position(position) <=> InGrid(position)

\* what get_cell_state does with a position: read its cell, read a wrapped
\* cell (negative index), or raise
CellReadOutcome(position) ==
    IF ~CellReadable(position) THEN "IndexError"
    ELSE IF InGrid(position) THEN "cell"
    ELSE "wrapped"

\* C6: given an out-of-bounds position, no grid operation raises or touches
\* another cell: get_cell_state neither raises nor reads a wrapped cell, and
\* agent_enter_cell, pick_orb and place_orb fail leaving grid and registry as
\* they are; and no round ever ends in an exception.
C6_NothingFatal ==
    /\ err \notin {"IndexError", "KeyError", "ValueError"}
    /\ \A position \in ProbePositions :
          ~InGrid(position) =>
             /\ CellReadOutcome(position) \notin {"IndexError", "wrapped"}
             /\ \A i \in 1 .. Len(agents) :
                   \A w \in {agent_enter_cell(World, position, i),
                             pick_orb(World, position),
                             place_orb(World, position, i, <<>>)} :
                      w.err = "none" /\ ~w.ret /\ w.grid = grid /\ w.orbs = orb_positions

\* the window side C7 names: fieldOfView when odd, the next odd size when even
WindowSide(field_of_view) ==
    IF field_of_view % 2 = 1 THEN field_of_view ELSE field_of_view + 1

\* C7: get_surrounding_cells returns a square window of side
\* 2*(fieldOfView div 2)+1 whose entry at offset (dx, dy) from the centre is
\* the cell of (x+dx, y+dy) when that lies in the grid and the out-of-bounds
\* sentinel otherwise.
C7_SurroundingWindow ==
    \A position \in ProbePositions, field_of_view \in ProbeFov :
        LET window == get_surrounding_cells(grid, position, field_of_view)
            h == field_of_view \div 2
        IN /\ Len(window) = 2 * h + 1
           /\ Len(window) = WindowSide(field_of_view)
           /\ \A r \in 1 .. Len(window) : Len(window[r]) = 2 * h + 1
           /\ \A dx \in -h .. h, dy \in -h .. h :
                 window[dy + h + 1][dx + h + 1] =
                     IF InGrid(<<position[1] + dx, position[2] + dy>>)
                     THEN get_cell_state(grid, <<position[1] + dx, position[2] + dy>>)
                     ELSE OUT

\* C7 witness: on a grid that is not square, the window of an agent holds the
\* sentinel next to an orb, a hole and the agent's own cell in the centre.
C7_Witness ==
    /\ phase = "running" /\ xAxis # yAxis
    /\ \E k \in 1 .. Len(agents) :
          LET window == get_surrounding_cells(grid, agents[k].position, FieldOfView)
              cells == {window[r][c] : r \in 1 .. 3, c \in 1 .. 3}
          IN /\ OUT \in cells
             /\ \E cell \in cells : Contains(cell, ORB)
             /\ \E cell \in cells : Contains(cell, HOLE)
             /\ get_label(agents[k]) \in Factors(window[2][2])

TerrainTokens == {EMPTY, OBSTACLE, ORB, HOLE, FILLED_HOLE}

\* the terrain tokens a cell state carries
TerrainOf(cell) == {token \in TerrainTokens : Contains(cell, token)}

\* the labels of the agents other than agent i that a cell state lists
OtherLabels(cell, ags, i) ==
    {k \in 1 .. Len(ags) : k # i /\ get_label(ags[k]) \in Factors(cell)}

\* C8: a movement step (agent_exit_cell, then agent_enter_cell) leaves the
\* terrain token of every cell and the labels of all other occupants as they
\* were; only the acting agent's own label is removed and added.
C8_EnterExitFrame ==
    [][(last'.op = "turn" /\ last'.kind = "move" /\ err' = "none") =>
          \A p \in Positions :
             /\ TerrainOf(get_cell_state(grid', p)) = TerrainOf(get_cell_state(grid, p))
             /\ OtherLabels(get_cell_state(grid', p), agents, last'.who)
                   = OtherLabels(get_cell_state(grid, p), agents, last'.who)]_vars

\* C8, other occupants only
C8_OtherOccupantsKept ==
    [][(last'.op = "turn" /\ last'.kind = "move" /\ err' = "none") =>
          \A p \in Positions :
             OtherLabels(get_cell_state(grid', p), agents, last'.who)
                 = OtherLabels(get_cell_state(grid, p), agents, last'.who)]_vars

\* C9: switch_orb_positions runs once in a turn whose place_orb succeeds and
\* in no other step; a step without a successful deposit moves no orb (the
\* registry can only lose the orb picked up) and fills no hole.
C9_RedistributionOnlyOnDeposit ==
    [][phase = "running" =>
          /\ last'.switches = IF last'.kind = "put" THEN 1 ELSE 0
          /\ last'.kind # "put" =>
                /\ orb_positions' \subseteq orb_positions
                /\ CellsWithToken(grid', FILLED_HOLE) = CellsWithToken(grid, FILLED_HOLE)
                /\ last'.relocated = 0 /\ last'.consumed = 0]_vars

\* C9 witness: a deposit succeeded and its one redistribution pass relocated
\* an orb
C9_Witness ==
    /\ last.op = "turn" /\ last.kind = "put" /\ err = "none"
    /\ last.switches = 1
    /\ last.relocated + last.consumed > 0
    /\ \E k \in 1 .. Len(agents) :
          Contains(get_cell_state(grid, agents[k].position), FILLED_HOLE)

\* the factors of a cell state that are no terrain token (its occupants)
OccupantsOf(cell) == Factors(cell) \ TerrainTokens

\* the one-step destination of an orb pushed in a direction
OneStep(orb, direction) ==
    <<orb[1] + (IF direction = RIGHT THEN 1 ELSE IF direction = LEFT THEN -1 ELSE 0),
      orb[2] + (IF direction = DOWN THEN 1 ELSE IF direction = UP THEN -1 ELSE 0)>>

\* the cells of g and h agree outside the positions in S
SameOutside(g, h, S) ==
    \A p \in Positions \ S : get_cell_state(g, p) = get_cell_state(h, p)

\* C10: the outcome of redistribution for one selected orb and direction:
\* nothing changes when the destination is invalid or holds Orb or FilledHole;
\* into Empty the orb relocates and the registry follows; into Hole the orb is
\* consumed, the hole filled, the registry loses the origin; occupants of
\* origin and destination stay.
C10_RedistributionOutcome ==
    phase = "running" =>
    \A orb \in orb_positions, direction \in {UP, RIGHT, DOWN, LEFT} :
        LET dest == OneStep(orb, direction)
            w == switch_one(World, orb, direction)
            before == get_cell_state(grid, dest)
        IN IF ~InGrid(dest) \/ Contains(before, ORB) \/ Contains(before, FILLED_HOLE)
           THEN w.grid = grid /\ w.orbs = orb_positions
           ELSE /\ SameOutside(w.grid, grid, {orb, dest})
                /\ OccupantsOf(get_cell_state(w.grid, orb))
                      = OccupantsOf(get_cell_state(grid, orb))
                /\ OccupantsOf(get_cell_state(w.grid, dest)) = OccupantsOf(before)
                /\ Contains(before, EMPTY) =>
                      /\ TerrainOf(get_cell_state(w.grid, orb)) = {EMPTY}
                      /\ TerrainOf(get_cell_state(w.grid, dest)) = {ORB}
                      /\ w.orbs = (orb_positions \ {orb}) \cup {dest}
                /\ Contains(before, HOLE) =>
                      /\ TerrainOf(get_cell_state(w.grid, orb)) = {EMPTY}
                      /\ TerrainOf(get_cell_state(w.grid, dest)) = {FILLED_HOLE}
                      /\ w.orbs = orb_positions \ {orb}

\* C10 on the grids where is_valid_position agrees with the grid's extent
C10_RedistributionOutcomeSquare ==
    xAxis = yAxis => C10_RedistributionOutcome

\* what C11 says of pick_orb(position) in the current state
PickOrbAsClaimed(position) ==
    LET w == pick_orb(World, position)
    IN IF ~InGrid(position) \/ ~Contains(get_cell_state(grid, position), ORB)
       THEN w.err = "none" /\ ~w.ret /\ w.grid = grid /\ w.orbs = orb_positions
       ELSE /\ w.err = "none" /\ w.ret
            /\ TerrainOf(get_cell_state(w.grid, position)) = {EMPTY}
            /\ OccupantsOf(get_cell_state(w.grid, position))
                  = OccupantsOf(get_cell_state(grid, position))
            /\ SameOutside(w.grid, grid, {position})
            /\ w.orbs = orb_positions \ {position}

\* C11: pick_orb fails and changes nothing when the position is outside the
\* grid or its cell has no Orb token; otherwise it succeeds, the cell's
\* terrain becomes Empty with its occupants kept, and the position leaves the
\* registry.
C11_PickOrbContract ==
    \A position \in ProbePositions : PickOrbAsClaimed(position)

\* C11 on the grids where is_valid_position agrees with the grid's extent
C11_PickOrbContractSquare ==
    xAxis = yAxis => C11_PickOrbContract

\* what C12 says of place_orb(position, agent i) under the draws of plan
PlaceOrbAsClaimed(position, i, plan) ==
    LET w == place_orb(World, position, i, plan)
    IN IF \/ ~InGrid(position)
          \/ ~agents[i].has_ball
          \/ TerrainOf(get_cell_state(grid, position)) # {HOLE}
       THEN w.err = "none" /\ ~w.ret /\ w.grid = grid /\ w.orbs = orb_positions
       ELSE /\ w.err = "none" /\ w.ret
            /\ TerrainOf(get_cell_state(w.grid, position)) = {FILLED_HOLE}
            /\ position \notin w.orbs
            /\ w.orbs \ orb_positions \subseteq
                  {OneStep(orb, d) : orb \in orb_positions, d \in {UP, RIGHT, DOWN, LEFT}}

\* C12: place_orb fails and changes nothing when the position is outside the
\* grid, the agent carries no orb, or the cell's terrain is not Hole (a
\* FilledHole included); otherwise it succeeds, the cell's terrain becomes
\* FilledHole and the position of the deposit does not enter the registry.
C12_PlaceOrbContract ==
    phase = "running" =>
    \A position \in ProbePositions, i \in 1 .. Len(agents) :
        IF InGrid(position) /\ agents[i].has_ball
        THEN \A plan \in Plans(orb_positions) : PlaceOrbAsClaimed(position, i, plan)
        ELSE PlaceOrbAsClaimed(position, i, StayPlan(orb_positions))

\* C12 on the grids where is_valid_position agrees with the grid's extent
C12_PlaceOrbContractSquare ==
    xAxis = yAxis => C12_PlaceOrbContract

\* C13: add_agent with the start position of a registered agent returns
\* failure and leaves grid and registered start positions as they are, and
\* the create_agent that called it leaves the roster as it is.
C13_CollisionRejected ==
    [][/\ \A position \in agent_start_positions, agent_id \in AgentIds :
             LET r == add_agent(grid, agent_start_positions,
                                NewAgent(agent_id, position, FieldOfView, MaxBattery))
             IN /\ ~r.ret /\ r.err = "none"
                /\ r.grid = grid
                /\ r.starts = agent_start_positions
       /\ last'.op = "create_agent" =>
             /\ Len(agents') = Len(agents) + (IF last'.ok THEN 1 ELSE 0)
             /\ SubSeq(agents', 1, Len(agents)) = agents
             /\ last'.ok =>
                   agents'[Len(agents')].position \notin agent_start_positions
             /\ (~last'.ok /\ err' = "none") =>
                   /\ agents' = agents
                   /\ grid' = grid
                   /\ agent_start_positions' = agent_start_positions]_vars

\* C13 witness: a create_agent has just been refused for a taken position
C13_Witness ==
    /\ last.op = "create_agent" /\ ~last.ok /\ err = "none"
    /\ Len(agents) >= 1
    /\ \A k \in 1 .. Len(agents) : agents[k].position \in agent_start_positions

\* C14: an agent whose battery is < 0 is never touched again: every step
\* leaves its position, direction, battery, carried-orb flag, target and
\* beliefs as they are, its roster entry is only ever skipped, a skip touches
\* neither grid nor registry, and no step increases any agent's battery.
C14_ExhaustedRetired ==
    [][phase = "running" =>
          /\ Len(agents') = Len(agents)
          /\ \A k \in 1 .. Len(agents) :
                /\ agents'[k].battery <= agents[k].battery
                /\ agents[k].battery < 0 =>
                      /\ agents'[k] = agents[k]
                      /\ last'.who = k => last'.op = "skip"
          /\ last'.op = "skip" =>
                /\ agents[last'.who].battery < 0
                /\ grid' = grid /\ orb_positions' = orb_positions
                /\ agents' = agents]_vars

\* C14 witness: an exhausted agent has just been skipped in a round in which
\* another agent is still active
C14_Witness ==
    /\ phase = "running" /\ last.op = "skip"
    /\ agents[last.who].battery < 0
    /\ \E k \in 1 .. Len(agents) : agents[k].battery >= 0

\* the elements of a Python list
Elems(l) == {l[k] : k \in 1 .. Len(l)}

\* the positions of the grid inside the window of an agent
InView(a) ==
    {p \in Positions : /\ Abs(p[1] - a.position[1]) <= a.field_of_view \div 2
                       /\ Abs(p[2] - a.position[2]) <= a.field_of_view \div 2}

\* C15: roster entries are handled in registration order, one round after
\* the other, and what an agent learns in its turn is what the grid holds
\* after the turns taken before it: an orb picked or a hole filled earlier in
\* the round is not learnt as Orb or Hole, and every Orb or Hole in view is
\* known afterwards unless it was taken as the target (which leaves the list).
C15_SequentialTurns ==
    [][phase = "running" =>
          /\ last'.op \in {"turn", "skip", "end_round"}
          /\ last'.op \in {"turn", "skip"} =>
                /\ turn <= Len(agents) /\ last'.who = turn
                /\ turn' = turn + 1 /\ iteration' = iteration
                /\ \A k \in 1 .. Len(agents) : k # turn => agents'[k] = agents[k]
          /\ last'.op = "end_round" =>
                /\ turn = Len(agents) + 1 /\ turn' = 1
                /\ iteration' = iteration + 1
                /\ grid' = grid /\ agents' = agents
          /\ last'.op = "turn" =>
                LET before == agents[turn]
                    after == agents'[turn]
                IN /\ Elems(after.orb_positions) \ Elems(before.orb_positions)
                         \subseteq InView(before) \cap CellsWithToken(grid, ORB)
                   /\ Elems(after.hole_positions) \ Elems(before.hole_positions)
                         \subseteq InView(before) \cap CellsWithToken(grid, HOLE)
                   /\ after.filled_hole_positions \ before.filled_hole_positions
                         \subseteq (InView(before) \cap CellsWithToken(grid, FILLED_HOLE))
                                      \cup {before.position}
                   /\ InView(before) \cap CellsWithToken(grid, FILLED_HOLE)
                         \subseteq after.filled_hole_positions
                   /\ (InView(before) \cap CellsWithToken(grid, ORB))
                         \ {before.position, after.target_position}
                         \subseteq Elems(after.orb_positions)
                   /\ (InView(before) \cap CellsWithToken(grid, HOLE))
                         \ {before.position, after.target_position}
                         \subseteq Elems(after.hole_positions)]_vars

\* the larger of the two coordinate distances
Chebyshev(p, q) ==
    IF Abs(p[1] - q[1]) > Abs(p[2] - q[2]) THEN Abs(p[1] - q[1]) ELSE Abs(p[2] - q[2])

\* C15 witness: the first agent picked or deposited in this round and the
\* second agent, next to it, has then taken its turn without moving away
C15_Witness ==
    /\ phase = "running" /\ last.op = "turn" /\ last.who = 2 /\ err = "none"
    /\ round_log[1].kind \in {"take", "put"}
    /\ last.kind # "move"
    /\ Chebyshev(agents[1].position, agents[2].position) <= 1

\* ------------------------------------------------------------ pickup scenario
\* a 5x5 playground, one agent at (0,0) with field of view 3, one orb at (1,0)
PickupGrid == <<5, 5>>
PickupStart == <<0, 0>>
PickupOrb == <<1, 0>>

\* the state after create_agent(position=(0,0)) and the placement of the one
\* orb; the scenario leaves the holes open: none, or one anywhere else
InitPickup ==
    /\ xAxis = PickupGrid[1] /\ yAxis = PickupGrid[2]
    /\ num_orbs = 1
    /\ \E battery \in 1 .. MaxBattery,
          holes \in {{}} \cup {{p} : p \in Positions \ {PickupStart, PickupOrb}} :
          LET agent == NewAgent(<<"1">>, PickupStart, FieldOfView, battery)
              r == add_agent([r \in 0 .. yAxis - 1 |-> [c \in 0 .. xAxis - 1 |-> EMPTY]],
                             {}, agent)
          IN /\ num_holes = Cardinality(holes)
             /\ grid = place_holes_and_orbs(r.grid, holes, {PickupOrb})
             /\ agent_start_positions = r.starts
             /\ agents = <<agent>>
             /\ round_log = RoundStartLog(<<agent>>)
    /\ orb_positions = {PickupOrb}
    /\ phase = "running"
    /\ turn = 1
    /\ iteration = 1
    /\ err = "none"
    /\ last = Last("start", 0, TRUE)

NextPickup == NextRoundSkip \/ NextRoundAgent \/ NextRoundEnd

SpecPickup == InitPickup /\ [][NextPickup]_vars

\* the second half of the scenario: the agent stands on (1,0) and acts
PickupSecondRound ==
    (last'.op = "turn" /\ iteration = 2) =>
        /\ agents[1].position = PickupOrb
        /\ last'.kind = "take" /\ err' = "none"
        /\ agents'[1].has_ball
        /\ TerrainOf(get_cell_state(grid', PickupOrb)) = {EMPTY}
        /\ PickupOrb \notin orb_positions'

C17_TargetSelectionTerminates == err # "hang"

\* the turn of the step set a new random fallback target for agent k
NewRandomTarget(k) ==
    /\ last'.op = "turn" /\ last'.who = k /\ err' = "none"
    /\ agents'[k].is_a_random_target
    /\ ~agents[k].is_a_random_target \/ agents'[k].target_position # agents[k].target_position

\* C18: a random fallback target is set only when the agent knows no
\* candidate for its need, and it is a position of the grid outside the
\* agent's visited set of that moment, so not the agent's own position.
C18_RandomFallbackTarget ==
    [][phase = "running" =>
          \A k \in 1 .. Len(agents) :
             NewRandomTarget(k) =>
                /\ InGrid(agents'[k].target_position)
                /\ agents'[k].target_position \notin agents[k].visited_cell
                /\ agents'[k].target_position # agents[k].position
                /\ agents[k].position \in agents[k].visited_cell
                /\ IF agents[k].has_ball
                   THEN agents'[k].hole_positions = <<>>
                   ELSE agents'[k].orb_positions = <<>>]_vars

\* C18 witness: an agent without known candidates has reached a random
\* fallback target and has just set the next one
C18_Witness ==
    /\ phase = "running" /\ last.op = "turn" /\ err = "none"
    /\ LET a == agents[last.who]
       IN /\ a.is_a_random_target
          /\ Cardinality(a.visited_cell) >= 3
          /\ a.target_position \notin a.visited_cell
          /\ a.orb_positions = <<>>

\* how many of the factors of a cell state are terrain tokens
TerrainCount(cell) ==
    Cardinality({k \in 1 .. Len(Split(cell)) : Split(cell)[k] \in TerrainTokens})

\* C19: every cell carries at most one terrain token among Empty, Obstacle,
\* Orb, Hole and FilledHole, whatever the number of agent labels in it; a
\* FilledHole cell does not test as a Hole.
C19_TerrainExclusive ==
    \A p \in Positions :
        LET cell == get_cell_state(grid, p)
        IN /\ TerrainCount(cell) <= 1
           /\ Cardinality(TerrainOf(cell)) <= 1
           /\ Contains(cell, FILLED_HOLE) => ~is_a_hole_cell(grid, p)
           /\ ~(Contains(cell, ORB) /\ Contains(cell, HOLE))

\* C19 witness: a filled hole exists and some cell holds one terrain token
\* together with the labels of two agents
C19_Witness ==
    /\ phase = "running" /\ err = "none"
    /\ CellsWithToken(grid, FILLED_HOLE) # {}
    /\ \E p \in Positions :
          /\ TerrainCount(get_cell_state(grid, p)) = 1
          /\ \E k, m \in 1 .. Len(agents) :
                /\ k # m
                /\ {get_label(agents[k]), get_label(agents[m])}
                      \subseteq Factors(get_cell_state(grid, p))

\* what C20 says of agent_enter_cell(position, agent i) in the current state
EnterCellAsClaimed(position, i) ==
    LET w == agent_enter_cell(World, position, i)
        label == get_label(agents[i])
        previous == agents[i].position
    IN IF ~InGrid(position)
       THEN w.err = "none" /\ ~w.ret /\ w.grid = grid
       ELSE /\ w.err = "none" /\ w.ret
            /\ position # previous =>
                  /\ label \notin Factors(get_cell_state(w.grid, previous))
                  /\ get_cell_state(w.grid, position)
                        = get_cell_state(grid, position) \o <<",">> \o label
                  /\ SameOutside(w.grid, grid, {previous, position})

\* C20: agent_enter_cell succeeds exactly when the position is inside the
\* grid, whoever occupies the destination; on failure the grid is unchanged,
\* on success the agent's label is gone from its previous cell and appended
\* to the destination cell.
C20_EnterCellContract ==
    phase = "running" =>
    \A position \in ProbePositions, i \in 1 .. Len(agents) :
        EnterCellAsClaimed(position, i)

\* C20 on the grids where is_valid_position agrees with the grid's extent
C20_EnterCellContractSquare ==
    xAxis = yAxis => C20_EnterCellContract

\* the interaction the interact-first policy asks of an agent in grid g
PolicyKind(a, g) ==
    IF a.has_ball /\ Contains(get_cell_state(g, a.position), HOLE) THEN "put"
    ELSE IF ~a.has_ball /\ Contains(get_cell_state(g, a.position), ORB) THEN "take"
    ELSE "move"

\* C21: a carrying agent on a Hole cell deposits and an empty-handed agent
\* on an Orb cell picks up, before anything else; a turn whose interaction
\* succeeded leaves position, direction and battery as they were, and the
\* agent's beliefs show the new terrain of its cell at the end of the turn.
C21_InteractFirst ==
    [][(phase = "running" /\ last'.op = "turn") =>
          LET before == agents[turn]
              after == agents'[turn]
          IN /\ last'.kind = PolicyKind(before, grid)
             /\ (last'.kind \in {"put", "take"} /\ err' = "none") =>
                   /\ after.position = before.position
                   /\ after.direction = before.direction
                   /\ after.battery = before.battery
                   /\ after.visited_cell = before.visited_cell
                   /\ after.target_position = before.target_position
                   /\ ~InList(after.orb_positions, before.position)
                   /\ ~InList(after.hole_positions, before.position)
             /\ (last'.kind = "put" /\ err' = "none") =>
                   /\ ~after.has_ball
                   /\ TerrainOf(get_cell_state(grid', before.position)) = {FILLED_HOLE}
                   /\ before.position \in after.filled_hole_positions
             /\ (last'.kind = "take" /\ err' = "none") =>
                   /\ after.has_ball
                   /\ TerrainOf(get_cell_state(grid', before.position)) = {EMPTY}
                   /\ before.position \notin orb_positions']_vars

\* C21 witness: an agent has deposited in this turn after having picked an
\* orb in an earlier one
C21_Witness ==
    /\ phase = "running" /\ last.op = "turn" /\ last.kind = "put" /\ err = "none"
    /\ agents[last.who].position \in agents[last.who].filled_hole_positions
    /\ ~agents[last.who].has_ball

\* the agent after the perception that opens its turn in grid g
Perceived(a, g) ==
    update_items_from(a, get_surrounding_cells(g, a.position, a.field_of_view), 0)

\* the list l without its k-th element
RemoveAt(l, k) == SubSeq(l, 1, k - 1) \o SubSeq(l, k + 1, Len(l))

\* the belief list an agent's need selects
RelevantList(a) == IF a.has_ball THEN a.hole_positions ELSE a.orb_positions

\* a movement turn of agent a recomputes the target: it has none, or a
\* random one, or it stands on it
Recomputes(a) ==
    \/ a.target_position = None
    \/ a.is_a_random_target
    \/ a.target_position = a.position

\* C22: when a movement turn recomputes the target and the relevant list is
\* not empty, the new target is the first element at minimal Manhattan
\* distance from the agent, and it leaves the list, whose other elements keep
\* their order; the other list is untouched.
C22_NearestTarget ==
    [][(phase = "running" /\ last'.op = "turn" /\ last'.kind = "move"
           /\ err' = "none") =>
          LET seen == Perceived(agents[turn], grid)
              after == agents'[turn]
              list == RelevantList(seen)
          IN (Recomputes(seen) /\ list # <<>>) =>
                /\ ~after.is_a_random_target
                /\ \E k \in 1 .. Len(list) :
                      /\ after.target_position = list[k]
                      /\ \A m \in 1 .. Len(list) :
                            manhattan_distance(seen.position, list[k])
                               <= manhattan_distance(seen.position, list[m])
                      /\ \A m \in 1 .. k - 1 :
                            manhattan_distance(seen.position, list[m])
                               > manhattan_distance(seen.position, list[k])
                      /\ RelevantList(after) = RemoveAt(list, k)
                /\ IF seen.has_ball
                   THEN after.orb_positions = seen.orb_positions
                   ELSE after.hole_positions = seen.hole_positions]_vars

\* C22 witness: a target was taken from a list that held another candidate,
\* which is still in the list
C22_Witness ==
    /\ phase = "running" /\ last.op = "turn" /\ last.kind = "move" /\ err = "none"
    /\ LET a == agents[last.who]
       IN /\ a.target_position # None /\ ~a.is_a_random_target
          /\ RelevantList(a) # <<>>
          /\ a.target_position \notin Elems(RelevantList(a))

\* C23: in a turn without interaction a non-random target the agent does not
\* stand on is kept, whatever the agent carries; a random target the agent
\* does not stand on is replaced by a known item when the relevant list is
\* not empty and kept otherwise; the lists change only when a target is taken.
C23_TargetMaintenance ==
    [][(phase = "running" /\ last'.op = "turn" /\ last'.kind = "move"
           /\ err' = "none") =>
          LET seen == Perceived(agents[turn], grid)
              after == agents'[turn]
              list == RelevantList(seen)
          IN /\ (~Recomputes(seen)) =>
                   /\ after.target_position = seen.target_position
                   /\ ~after.is_a_random_target
                   /\ after.orb_positions = seen.orb_positions
                   /\ after.hole_positions = seen.hole_positions
             /\ (seen.is_a_random_target /\ seen.target_position # seen.position) =>
                   IF list # <<>>
                   THEN /\ after.target_position \in Elems(list)
                        /\ ~after.is_a_random_target
                   ELSE /\ after.target_position = seen.target_position
                        /\ after.is_a_random_target
                        /\ after.orb_positions = seen.orb_positions
                        /\ after.hole_positions = seen.hole_positions]_vars

\* C23 witness: the agent whose turn it is has moved before, holds a
\* non-random target it does not stand on, has nothing to interact with, and
\* knows candidates it could take instead
C23_Witness ==
    /\ phase = "running" /\ err = "none" /\ iteration <= MaxRounds
    /\ turn <= Len(agents)
    /\ LET seen == Perceived(agents[turn], grid)
       IN /\ seen.battery >= 0 /\ seen.battery < MaxBattery
          /\ PolicyKind(seen, grid) = "move"
          /\ ~Recomputes(seen)
          /\ RelevantList(seen) # <<>>

\* C24: at the end of a turn in which the agent moved onto its target, the
\* target is cleared: no movement turn ends with the agent on a cell that
\* is still its target.
C24_TargetClearedOnArrival ==
    [][(phase = "running" /\ last'.op = "turn" /\ last'.kind = "move"
           /\ err' = "none"
           /\ agents'[turn].position # agents[turn].position) =>
          agents'[turn].target_position # agents'[turn].position]_vars

\* the movement turn of the agent whose turn it is: update_target returned
\* and the agent oriented itself and called take_step_forward
MoveTurn == phase = "running" /\ last'.op = "turn" /\ last'.kind = "move" /\ err' # "hang"

C26_StepForward ==
    [][MoveTurn =>
          LET before == agents[turn]
              after == agents'[turn]
              new_position == get_new_position(after.direction, before.position)
          IN /\ after.battery = before.battery - 1
             /\ (err' = "none" /\ last'.ok) =>
                   /\ after.position = new_position
                   /\ after.visited_cell = before.visited_cell \cup {new_position}
             /\ (err' = "none" /\ ~last'.ok) =>
                   /\ after.position = before.position
                   /\ after.visited_cell = before.visited_cell
                   /\ grid' = grid]_vars

\* C26 witness: a step that agent_enter_cell refused; the agent stayed and
\* paid for it
C26_Witness ==
    /\ phase = "running" /\ err = "none"
    /\ last.op = "turn" /\ last.kind = "move" /\ ~last.ok
    /\ agents[last.who].battery < MaxBattery
    /\ ~is_valid_position(get_new_position(agents[last.who].direction,
                                           agents[last.who].position))

\* the agents standing on a position
StandingOn(p) == {i \in 1 .. Len(agents) : agents[i].position = p}

\* C27: a cell without Orb, Hole or FilledHole terrain that no agent stands
\* on has state exactly Empty, whatever entries and exits it has seen.
C27_VacatedCellEmpty ==
    \A p \in Positions :
        LET cell == get_cell_state(grid, p)
        IN (StandingOn(p) = {} /\ ~Contains(cell, ORB) /\ ~Contains(cell, HOLE)
               /\ ~Contains(cell, FILLED_HOLE)) =>
              cell = EMPTY

\* C27, the encodings the claim rules out: no cell is the empty text or
\* made of separators only
C27_NoBlankEncoding ==
    \A p \in Positions :
        LET cell == get_cell_state(grid, p)
        IN cell # <<>> /\ \E k \in 1 .. Len(cell) : cell[k] # ","

\* the cells at Manhattan distance at most one from a position
Near(p) == {q \in Positions : manhattan_distance(p, q) <= 1}

\* an account of one pass: every orb of the registry at the start of the
\* pass ends on a cell of its own, at most one step away, which is either in
\* the registry after the pass or a neighbouring hole the pass filled
PassAccount(before, w) ==
    \E f \in [before -> Positions] :
       /\ \A o \in before : f[o] \in Near(o)
       /\ \A o1, o2 \in before : f[o1] = f[o2] => o1 = o2
       /\ w.orbs \subseteq {f[o] : o \in before}
       /\ \A o \in before :
             \/ f[o] \in w.orbs
             \/ /\ f[o] # o
                /\ Contains(get_cell_state(grid, f[o]), HOLE)
                /\ Contains(get_cell_state(w.grid, f[o]), FILLED_HOLE)
       /\ Cardinality({o \in before : f[o] \notin w.orbs}) = w.consumed
       /\ Cardinality({o \in before : f[o] # o /\ f[o] \in w.orbs}) <= w.relocated

\* C28: one redistribution pass considers the orbs of the registry at its
\* start, each at most once: a relocated orb is not moved again in the same
\* pass, so every orb ends the pass at Manhattan distance at most one from
\* where it started, or consumed into an adjacent hole.
C28_SingleStepPerOrb ==
    phase = "running" =>
    \A plan \in Plans(orb_positions) :
        LET w == switch_orb_positions(World, plan)
        IN w.err = "none" =>
              /\ PassAccount(orb_positions, w)
              /\ w.relocated + w.consumed <= Cardinality(orb_positions)
              /\ Cardinality(w.orbs) + w.consumed = Cardinality(orb_positions)

\* C28 witness: two orbs, one next to the other, and a pass that moves the
\* second away and the first onto the cell the second has left
C28_Witness ==
    /\ phase = "running" /\ err = "none"
    /\ \E a, b \in orb_positions :
          /\ a # b /\ manhattan_distance(a, b) = 1
          /\ \E plan \in Plans(orb_positions) :
                LET w == switch_orb_positions(World, plan)
                IN /\ w.err = "none" /\ w.relocated = 2
                   /\ b \in w.orbs /\ a \notin w.orbs

\* C29: every movement step makes progress. Whenever an agent performs a
\* movement step its target differs from its position and lies inside the
\* grid, the step succeeds, and the Manhattan distance between agent and
\* target drops by exactly one.
C29_StepMakesProgress ==
    [][MoveTurn =>
          LET p == agents[turn].position
              q == agents'[turn].position
              t == agents'[turn].target_position
          IN /\ t # p
             /\ InGrid(t)
             /\ err' = "none" /\ last'.ok
             /\ manhattan_distance(q, t) = manhattan_distance(p, t) - 1]_vars

\* C29, last part alone: the agent never steps while standing on its target
C29_NeverStepsOnTarget ==
    [][(MoveTurn /\ err' = "none") =>
          agents'[turn].target_position # agents[turn].position]_vars

\* Repeated round-advance: the caller invokes next_round again and again,
\* and inside it the for loop hands the turn to the next agent as soon as
\* the previous call has returned, so a turn, a skip or a round end that can
\* be taken is eventually taken. A call that never returns (err = "hang") or
\* raised leaves nothing to schedule.
SpecRounds == Init /\ [][Next]_vars /\ WF_vars(Start) /\ WF_vars(NextPickup)

AllExhausted == \A i \in 1 .. Len(agents) : agents[i].battery < 0

\* C30: in every run of repeated round-advance every agent eventually
\* reaches battery < 0.
C30_EventualExhaustion == (phase = "running") ~> AllExhausted

\* C30, second part: once every agent is exhausted, further rounds change
\* neither the grid nor any agent
C30_ExhaustedFrozen ==
    [][(phase = "running" /\ AllExhausted) =>
          (grid' = grid /\ agents' = agents /\ orb_positions' = orb_positions)]_vars

\* C30, runs in which every call returns: the agents are exhausted, the
\* run has raised, or a call hangs
C30_ExhaustionOrFailure == (phase = "running") ~> (AllExhausted \/ err # "none")

\* the round cap is reached only after every agent is exhausted
C30_CapAfterExhaustion ==
    (phase = "running" /\ err = "none" /\ iteration > MaxRounds) => AllExhausted

\* the number of orbs place_holes_and_orbs put on the grid: what is left of
\* the available positions after the holes, at most num_orbs
OrbsPlaced ==
    Min(num_orbs, Cardinality(AvailablePositions)
                     - Min(num_holes, Cardinality(AvailablePositions)))

\* C31: hole conservation. After place_holes_and_orbs the cells with Hole
\* terrain and the cells with FilledHole terrain together stay the same
\* cells, a FilledHole cell never changes terrain again, and there are never
\* more FilledHole cells than orbs initially placed.
C31_HoleConservation ==
    /\ [](phase = "running" =>
             Cardinality(CellsWithToken(grid, FILLED_HOLE)) <= OrbsPlaced)
    /\ [][phase = "running" =>
             /\ CellsWithToken(grid', HOLE) \cup CellsWithToken(grid', FILLED_HOLE)
                   = CellsWithToken(grid, HOLE) \cup CellsWithToken(grid, FILLED_HOLE)
             /\ CellsWithToken(grid', HOLE) \cap CellsWithToken(grid', FILLED_HOLE) = {}
             /\ CellsWithToken(grid, FILLED_HOLE) \subseteq CellsWithToken(grid', FILLED_HOLE)
             /\ \A p \in CellsWithToken(grid, FILLED_HOLE) :
                   TerrainOf(get_cell_state(grid', p)) = {FILLED_HOLE}]_vars

\* C31 witness: every orb that was placed has ended in a hole, one of them
\* moved there by a redistribution pass
C31_Witness ==
    /\ phase = "running" /\ err = "none"
    /\ OrbsPlaced >= 1
    /\ Cardinality(CellsWithToken(grid, FILLED_HOLE)) = OrbsPlaced
    /\ last.op = "turn" /\ last.consumed >= 1

\* Agent.get_score
get_score(a) == Cardinality(a.filled_hole_positions)

C33_RemovalDefined ==
    /\ [](err # "ValueError")
    /\ [][(phase = "running" /\ last'.op = "turn" /\ last'.kind \in {"put", "take"}) =>
             LET seen == Perceived(agents[turn], grid)
                 after == agents'[turn]
                 position == agents[turn].position
             IN /\ last'.kind = "take" => InList(seen.orb_positions, position)
                /\ last'.kind = "put" => InList(seen.hole_positions, position)
                /\ (last'.kind = "take" /\ err' = "none") =>
                      /\ after.orb_positions = ListRemove(seen.orb_positions, position)
                      /\ after.hole_positions = seen.hole_positions
                /\ (last'.kind = "put" /\ err' = "none") =>
                      /\ after.hole_positions = ListRemove(seen.hole_positions, position)
                      /\ after.orb_positions = seen.orb_positions
                /\ err' = "none" =>
                      /\ ~InList(after.orb_positions, position)
                      /\ ~InList(after.hole_positions, position)]_vars

\* C33 witness: an agent has picked the orb it had chosen as its target, a
\* position find_nearest_target had taken out of the list when it chose it
C33_Witness ==
    /\ phase = "running" /\ err = "none"
    /\ last.op = "turn" /\ last.kind = "take"
    /\ agents[last.who].has_ball
    /\ agents[last.who].target_position = agents[last.who].position
    /\ ~agents[last.who].is_a_random_target

\* C34, the part about states and steps: the battery of an agent created
\* with MaxBattery stays between -1 and MaxBattery, and it changes only by
\* one unit, in a movement turn of that agent
C34_BatteryBounds ==
    /\ [](\A i \in 1 .. Len(agents) :
             agents[i].battery >= -1 /\ agents[i].battery <= MaxBattery)
    /\ [][\A i \in 1 .. Len(agents) :
             \/ agents'[i].battery = agents[i].battery
             \/ /\ agents'[i].battery = agents[i].battery - 1
                /\ agents[i].battery >= 0
                /\ last'.op = "turn" /\ last'.who = i /\ last'.kind = "move"]_vars

\* C34: battery lower bound. An agent created with battery B >= 0 never has
\* a battery below -1 and performs exactly B + 1 movement attempts over its
\* lifetime: each attempt costs one unit and nothing else changes the
\* battery, so the agent's battery ends at -1.
C34_BatteryLowerBound ==
    /\ [](\A i \in 1 .. Len(agents) : agents[i].battery >= -1)
    /\ [][\A i \in 1 .. Len(agents) :
             \/ agents'[i].battery = agents[i].battery
             \/ /\ agents'[i].battery = agents[i].battery - 1
                /\ last'.op = "turn" /\ last'.who = i /\ last'.kind = "move"]_vars
    /\ (phase = "running") ~> (\A i \in 1 .. Len(agents) : agents[i].battery = -1)

\* C34 in a run that neither hangs nor raises: the attempts add up to B + 1
C34_AttemptsUnlessFailure ==
    (phase = "running") ~>
        ((\A i \in 1 .. Len(agents) : agents[i].battery = -1) \/ err # "none")

====
